---- MODULE Spec2Model ----
(***************************************************************************)
(* Verification model of the sat_mon analysis core:                        *)
(*   - the quality-aware Sentinel-2 scene selector                         *)
(*     (src/sat_mon/data/composite.py),                                    *)
(*   - the phenology detector (src/sat_mon/analysis/phenology.py),         *)
(*   - the per-scene field extractors (src/sat_mon/data/timeseries.py),    *)
(*   - the rainfall accumulation of get_satellite_data                     *)
(*     (src/sat_mon/data/composite.py),                                    *)
(*   - the boundary constructors (src/sat_mon/analysis/field_boundary.py), *)
(*   - smooth_timeseries (src/sat_mon/analysis/phenology.py),              *)
(*   - apply_field_mask and compute_field_statistics                       *)
(*     (src/sat_mon/analysis/field_boundary.py),                           *)
(*   - fetch_timeseries (src/sat_mon/data/timeseries.py), and              *)
(*   - the Sentinel-2 and Landsat sections of get_satellite_data           *)
(*     (src/sat_mon/data/composite.py).                                    *)
(* NDVI values are integers in hundredths (30 stands for 0.30); dates are  *)
(* integer day numbers.                                                    *)
(***************************************************************************)
EXTENDS Integers, Sequences, FiniteSets, TLC

VARIABLES
    \* ---- _select_s2_item_with_cloud_threshold ----
    items_s2,        \* the candidate list, newest first
    threshold_pct,   \* the threshold argument
    sel_pc,          \* "scan" | "ret" | "done" | "raised"
    sel_idx,         \* position of the for loop (1-based)
    selected_item,   \* index of the selected item, NoItem for None
    selected_cloud,  \* NoCloud for None
    best_item,
    best_cloud,
    scl_reads,       \* log of the loop: <<[item, cloud_pct]>> in read order
    \* ---- detect_seasons / classify_health ----
    dates,           \* day numbers, chronologically sorted
    ndvi_values,     \* hundredths, NaN for a missing sample
    close_unclosed,
    det_pc,          \* "start" | "loop" | "done" | "classify" | "classified"
    smoothed_ndvi,   \* smooth_timeseries(ndvi_values), in units of 1/Scale
    i,               \* loop index (0-based, as in the code)
    in_season,
    season_start_idx,
    seasons,         \* the result list
    candidates,      \* log of the _create_season calls: [start_idx, end_idx, kept]
    health_arg,      \* argument of a direct classify_health call
    health_result,   \* its return value
    \* ---- extract_field_values / fetch_ndvi_timeseries /
    \*      fetch_multi_index_timeseries ----
    ext_fn,          \* which of the three functions runs
    scenes,          \* the scene list, oldest first
    max_cloud_fraction, \* in hundredths (50 stands for 0.5)
    ext_pc,          \* "setup" | "loop" | "done"
    ext_i,           \* position of the for loop (1-based)
    mask_epsg,       \* CRS the field mask was rasterized in, NoEpsg before
    results,         \* the emitted entries, in emission order
    ext_log,         \* log of the loop: one outcome per processed scene
    \* ---- rainfall accumulation of get_satellite_data ----
    items_rain,      \* per day, oldest first: the band, or ReadFails
    rain_pc,         \* "loop" | "done"
    rain_idx,        \* position of the for loop (1-based)
    sum30,           \* NoSum for None
    sum7,            \* NoSum for None
    window7,         \* the deque(maxlen=7)
    count,
    rain_read,       \* log: the bands read successfully, in order
    \* ---- create_circular_boundary / create_polygon_boundary ----
    bnd_fn,          \* "circle" | "polygon"
    bnd_pc,          \* "call" | "returned" | "raised"
    center_lat,
    center_lon,
    radius_meters,
    vertices,        \* sequence of <<lat, lon>>
    boundary,        \* the returned Feature, NoBoundary before and on raise
    geometry_built,  \* TRUE once Polygon(...) / buffer(...) has been called
    \* ---- smooth_timeseries ----
    sm_values,       \* the values argument, NaN for a missing sample
    sm_window,       \* the window argument
    sm_pc,           \* "call" | "returned"
    sm_result,       \* the returned series, in units of 1/(InterpDen * window)
    \* ---- apply_field_mask / compute_field_statistics ----
    msk_fn,          \* which of the two functions runs
    data_array,      \* [shape, px]: the raster, row-major
    mask_array,      \* [shape, px]: the boolean field mask
    fill_value,
    msk_pc,          \* "call" | "returned" | "raised"
    msk_result,      \* the returned array or statistics, NoResult before
    \* ---- fetch_timeseries ----
    catalog,         \* the matching items of the catalog, in served order
    server,          \* how the catalog answers a repeated request
    fail_at,         \* number of the request that raises, 0 for none
    fet_pc,          \* "loop" | "convert" | "done"
    page,
    requests,        \* number of page requests issued
    all_items,
    fet_results,     \* the returned list of SceneResult
    \* ---- Sentinel-2 / Landsat sections of get_satellite_data ----
    cmp_pc,          \* "s2" | "landsat" | "done" | "raised"
    items_ls_st,     \* the Landsat surface temperature scene, NoScene for none
    items_ls_sr,     \* the Landsat surface reflectance scene, NoScene for none
    data_s2,         \* data["s2"]: the index of the scene it was read from, or NoS2
    data_landsat,    \* data["landsat"]: which of its rasters it holds, NoLandsat for None
    ndvi_source,     \* data["ndvi_source"], "None" for None
    searches         \* log of the catalog searches, in order

selVars == <<items_s2, threshold_pct, sel_pc, sel_idx, selected_item,
             selected_cloud, best_item, best_cloud, scl_reads>>

detVars == <<dates, ndvi_values, close_unclosed, det_pc, smoothed_ndvi, i,
             in_season, season_start_idx, seasons, candidates,
             health_arg, health_result>>

extVars == <<ext_fn, scenes, max_cloud_fraction, ext_pc, ext_i, mask_epsg,
             results, ext_log>>

rainVars == <<items_rain, rain_pc, rain_idx, sum30, sum7, window7, count,
              rain_read>>

bndVars == <<bnd_fn, bnd_pc, center_lat, center_lon, radius_meters, vertices,
             boundary, geometry_built>>

smVars == <<sm_values, sm_window, sm_pc, sm_result>>

mskVars == <<msk_fn, data_array, mask_array, fill_value, msk_pc, msk_result>>

fetVars == <<catalog, server, fail_at, fet_pc, page, requests, all_items,
             fet_results>>

cmpVars == <<cmp_pc, items_ls_st, items_ls_sr, data_s2, data_landsat,
             ndvi_source, searches>>

lateVars == <<smVars, mskVars, fetVars, cmpVars>>

tsVars == <<extVars, rainVars, bndVars, lateVars>>

vars == <<selVars, detVars, tsVars>>

-----------------------------------------------------------------------------
(* Bounds of the model *)

MaxItems == 4
MaxSamples == 6

-----------------------------------------------------------------------------
(* Helpers *)

RECURSIVE SumSeq(_)
SumSeq(s) == IF s = <<>> THEN 0 ELSE Head(s) + SumSeq(Tail(s))

SeqsUpTo(S, n) == UNION {[1..k -> S] : k \in 0..n}

-----------------------------------------------------------------------------
(* The scene selector *)

NoItem == 0
NoCloud == -1

\* S2 SCL classes counted as cloud
cloud_classes == {3, 8, 9, 10}

\* Quality bands a candidate may carry (4 pixels each): clear, 25 %, 50 %
\* and 100 % cloud, every cloud class occurring.
SclArrays == { <<4, 4, 5, 6>>, <<4, 8, 4, 4>>, <<3, 9, 4, 5>>, <<8, 9, 10, 3>> }

\* A candidate: its SCL band, whether read_band raises for it, and whether
\* classifying the band raises.
Candidates == [scl : SclArrays, read_raises : BOOLEAN, classify_raises : {FALSE}]
                 \cup [scl : {<<4, 4, 5, 6>>}, read_raises : {FALSE}, classify_raises : {TRUE}]

Thresholds == {0, 25, 60, 100}

\* float(np.mean(np.isin(scl, cloud_classes)) * 100.0), 100.0 when that raises
ComputeCloudPctFromScl(item) ==
    IF item.classify_raises THEN 100
    ELSE (100 * SumSeq([k \in 1..Len(item.scl) |->
                         IF item.scl[k] \in cloud_classes THEN 1 ELSE 0]))
             \div Len(item.scl)

\* A handler that scores a failed read as clear sky
ItemCloudPct_FailureIsClear(item) ==
    IF item.read_raises THEN 0 ELSE ComputeCloudPctFromScl(item)

\* The try/except of the loop body: the cloud percentage of one candidate
ItemCloudPct(item) ==
    IF item.read_raises THEN 100 ELSE ComputeCloudPctFromScl(item)

\* A fallback tracker that keeps the cloudiest candidate
IsLowerCloud_Highest(cloud_pct, best) == (best = NoCloud) \/ (cloud_pct > best)

\* A fallback tracker that keeps the first candidate it saw
IsLowerCloud_FirstOnly(cloud_pct, best) == best = NoCloud

\* (best_cloud is None) or (cloud_pct < best_cloud)
IsLowerCloud(cloud_pct, best) == (best = NoCloud) \/ (cloud_pct < best)

\* A threshold test that rejects a candidate exactly at the threshold
MeetsThreshold_Strict(cloud_pct, thr) == cloud_pct < thr

\* cloud_pct <= threshold_pct
MeetsThreshold(cloud_pct, thr) == cloud_pct <= thr

\* None for the mask CRS, the rainfall sums and the returned boundary
NoEpsg == 0
NoSum == -1
NoBoundary == [type |-> "None", coordinates |-> <<>>, properties |-> <<>>]

\* None for a function result, a Landsat scene, data["s2"] and data["landsat"]
NoResult == <<>>
NoScene == "none"
NoS2 == 0
NoLandsat == [st |-> FALSE, sr_ndvi |-> FALSE]

SmIdle ==
    /\ sm_values = <<>>
    /\ sm_window = 1
    /\ sm_pc = "returned"
    /\ sm_result = <<>>

MskIdle ==
    /\ msk_fn = "apply_field_mask"
    /\ data_array = [shape |-> <<0, 0>>, px |-> <<>>]
    /\ mask_array = [shape |-> <<0, 0>>, px |-> <<>>]
    /\ fill_value = 0
    /\ msk_pc = "returned"
    /\ msk_result = NoResult

FetIdle ==
    /\ catalog = <<>>
    /\ server = "stateless"
    /\ fail_at = 0
    /\ fet_pc = "done"
    /\ page = 1
    /\ requests = 0
    /\ all_items = <<>>
    /\ fet_results = <<>>

CmpIdle ==
    /\ cmp_pc = "done"
    /\ items_ls_st = NoScene
    /\ items_ls_sr = NoScene
    /\ data_s2 = NoS2
    /\ data_landsat = NoLandsat
    /\ ndvi_source = "None"
    /\ searches = <<>>

LateIdle == SmIdle /\ MskIdle /\ FetIdle /\ CmpIdle

ExtIdle ==
    /\ ext_fn = "extract_field_values"
    /\ scenes = <<>>
    /\ max_cloud_fraction = 50
    /\ ext_pc = "done"
    /\ ext_i = 1
    /\ mask_epsg = NoEpsg
    /\ results = <<>>
    /\ ext_log = <<>>

RainIdle ==
    /\ items_rain = <<>>
    /\ rain_pc = "done"
    /\ rain_idx = 1
    /\ sum30 = NoSum
    /\ sum7 = NoSum
    /\ window7 = <<>>
    /\ count = 0
    /\ rain_read = <<>>

BndIdle ==
    /\ bnd_fn = "circle"
    /\ bnd_pc = "returned"
    /\ center_lat = 0
    /\ center_lon = 0
    /\ radius_meters = 0
    /\ vertices = <<>>
    /\ boundary = NoBoundary
    /\ geometry_built = FALSE

SelIdle ==
    /\ items_s2 = <<>>
    /\ threshold_pct = 0
    /\ sel_pc = "done"
    /\ sel_idx = 1
    /\ selected_item = NoItem
    /\ selected_cloud = NoCloud
    /\ best_item = NoItem
    /\ best_cloud = NoCloud
    /\ scl_reads = <<>>

DetIdle ==
    /\ dates = <<>>
    /\ ndvi_values = <<>>
    /\ close_unclosed = TRUE
    /\ det_pc = "done"
    /\ smoothed_ndvi = <<>>
    /\ i = 0
    /\ in_season = FALSE
    /\ season_start_idx = -1
    /\ seasons = <<>>
    /\ candidates = <<>>
    /\ health_arg = <<>>
    /\ health_result = ""

SelInit ==
    /\ DetIdle
    /\ ExtIdle /\ RainIdle /\ BndIdle /\ LateIdle
    /\ items_s2 \in SeqsUpTo(Candidates, MaxItems)
    /\ threshold_pct \in Thresholds
    /\ sel_pc = "scan"
    /\ sel_idx = 1
    /\ selected_item = NoItem
    /\ selected_cloud = NoCloud
    /\ best_item = NoItem
    /\ best_cloud = NoCloud
    /\ scl_reads = <<>>

\* One iteration of "for item in items_s2"
SelScan ==
    /\ sel_pc = "scan"
    /\ sel_idx <= Len(items_s2)
    /\ LET cloud_pct == ItemCloudPct(items_s2[sel_idx])
           better == IsLowerCloud(cloud_pct, best_cloud)
       IN /\ scl_reads' = Append(scl_reads, [item |-> sel_idx, cloud_pct |-> cloud_pct])
          /\ best_cloud' = IF better THEN cloud_pct ELSE best_cloud
          /\ best_item' = IF better THEN sel_idx ELSE best_item
          /\ IF MeetsThreshold(cloud_pct, threshold_pct)
             THEN /\ selected_item' = sel_idx
                  /\ selected_cloud' = cloud_pct
                  /\ sel_pc' = "ret"
                  /\ UNCHANGED sel_idx
             ELSE /\ sel_idx' = sel_idx + 1
                  /\ UNCHANGED <<selected_item, selected_cloud, sel_pc>>
    /\ UNCHANGED <<items_s2, threshold_pct, detVars, tsVars>>

\* After the loop: the fallback and the return
SelReturn ==
    /\ \/ sel_pc = "ret"
       \/ sel_pc = "scan" /\ sel_idx > Len(items_s2)
    /\ IF selected_item = NoItem /\ best_item # NoItem
       THEN /\ selected_item' = best_item
            /\ selected_cloud' = best_cloud
       ELSE UNCHANGED <<selected_item, selected_cloud>>
    /\ sel_pc' = "done"
    /\ UNCHANGED <<items_s2, threshold_pct, sel_idx, best_item, best_cloud, scl_reads, detVars, tsVars>>

SelNext == SelScan \/ SelReturn

SpecSelect == SelInit /\ [][SelNext]_vars

-----------------------------------------------------------------------------
(* The phenology detector *)

\* A missing sample: None and float NaN are both NaN after np.array(dtype=float)
NaN == -1000000000

\* Defaults of smooth_timeseries and detect_seasons (NDVI in hundredths)
SmoothWindow == 5
threshold == 25
sharp_drop == 20
sharp_drop_days == 14
min_duration == 30

NdviValues == {0, 30, 90}
DayGaps == {7, 40}

\* Number of missing samples an input series may carry
MissingCounts == {0, 1}

RECURSIVE Fact(_)
Fact(n) == IF n <= 1 THEN 1 ELSE n * Fact(n - 1)

\* Interpolated values are exact in units of 1/InterpDen, smoothed values in
\* units of 1/Scale.
InterpDen == Fact(MaxSamples)
Scale == InterpDen * SmoothWindow

MinOf(S) == CHOOSE x \in S : \A y \in S : x <= y
MaxOf(S) == CHOOSE x \in S : \A y \in S : x >= y

\* Python indexing: element k (0-based) of a list
At(s, k) == s[k + 1]

\* Python slice s[a:b]
Slice(s, a, b) == SubSeq(s, a + 1, b)

\* Comparisons of floats: any comparison with NaN is False
GE(a, b) == a # NaN /\ b # NaN /\ a >= b
LT(a, b) == a # NaN /\ b # NaN /\ a < b

\* np.interp(x[nans], x[~nans], arr[~nans]) at position x, times InterpDen
InterpAt(arr, x) ==
    LET known == {k \in 1..Len(arr) : arr[k] # NaN}
        left == {k \in known : k < x}
        right == {k \in known : k > x}
    IN IF arr[x] # NaN THEN arr[x] * InterpDen
       ELSE IF left = {} THEN arr[MinOf(right)] * InterpDen
       ELSE IF right = {} THEN arr[MaxOf(left)] * InterpDen
       ELSE LET l == MaxOf(left)
                r == MinOf(right)
            IN arr[l] * InterpDen
                 + ((arr[r] - arr[l]) * (x - l) * InterpDen) \div (r - l)

\* A padding of the left edge only
PadEdge_LeftOnly(arr, pad_width) ==
    [k \in 1..(Len(arr) + pad_width) |->
        IF k <= pad_width THEN arr[1] ELSE arr[k - pad_width]]

\* np.pad(arr, pad_width, mode='edge')
PadEdge(arr, pad_width) ==
    [k \in 1..(Len(arr) + 2 * pad_width) |->
        IF k <= pad_width THEN arr[1]
        ELSE IF k > pad_width + Len(arr) THEN arr[Len(arr)]
        ELSE arr[k - pad_width]]

\* np.convolve(padded, np.ones(window) / window, mode='valid'), times window
ConvolveValid(padded, window) ==
    [k \in 1..(Len(padded) - window + 1) |->
        SumSeq(SubSeq(padded, k, k + window - 1))]

\* smooth_timeseries; the result is in units of 1/(InterpDen * window)
smooth_timeseries(values, window) ==
    IF values = <<>> THEN <<>>
    ELSE IF \A k \in 1..Len(values) : values[k] = NaN THEN values
    ELSE LET arr == [k \in 1..Len(values) |-> InterpAt(values, k)]
         IN IF Len(arr) < window
            THEN [k \in 1..Len(arr) |-> arr[k] * window]
            ELSE LET pad_width == window \div 2
                     padded0 == PadEdge(arr, pad_width)
                     padded == IF window % 2 = 0
                               THEN SubSeq(padded0, 1, Len(padded0) - 1)
                               ELSE padded0
                 IN ConvolveValid(padded, window)

\* A classifier with inclusive bounds
classify_health_Inclusive(season) ==
    LET peak == season.peak_ndvi
        duration == season.duration_days
    IN IF peak >= 70 * Scale /\ duration >= 150 THEN "excellent"
       ELSE IF peak >= 60 * Scale /\ duration >= 120 THEN "good"
       ELSE IF peak >= 40 * Scale /\ duration >= 90 THEN "moderate"
       ELSE "poor"

\* classify_health; peak_ndvi is in units of 1/Scale
classify_health(season) ==
    LET peak == season.peak_ndvi
        duration == season.duration_days
    IN IF peak > 70 * Scale /\ duration > 150 THEN "excellent"
       ELSE IF peak > 60 * Scale /\ duration > 120 THEN "good"
       ELSE IF peak > 40 * Scale /\ duration > 90 THEN "moderate"
       ELSE "poor"

\* An argmax that returns the last maximum
ArgMax_Last(s) == MaxOf({k \in 0..(Len(s) - 1) : \A j \in 0..(Len(s) - 1) : At(s, k) >= At(s, j)})

\* np.argmax: index of the first maximum of a non-empty sequence (0-based)
ArgMax(s) == MinOf({k \in 0..(Len(s) - 1) : \A j \in 0..(Len(s) - 1) : At(s, k) >= At(s, j)})

\* A filter that lets every candidate through
TooShort_Never(duration) == FALSE

\* The duration filter of _create_season
TooShort(duration) == duration < min_duration

\* _create_season(start_idx, end_idx): <<>> for None, <<season>> otherwise
create_season(ds, sm, start_idx, end_idx) ==
    LET season_slice == Slice(sm, start_idx, end_idx + 1)
        peak_idx_rel == ArgMax(season_slice)
        peak_val == At(season_slice, peak_idx_rel)
        peak_idx_abs == start_idx + peak_idx_rel
        start_date == At(ds, start_idx)
        end_date == At(ds, end_idx)
        peak_date == At(ds, peak_idx_abs)
        duration == end_date - start_date
        season == [start_date |-> start_date, peak_date |-> peak_date,
                   peak_ndvi |-> peak_val, end_date |-> end_date,
                   duration_days |-> duration, health |-> "pending"]
    IN IF TooShort(duration) THEN <<>>
       ELSE << [season EXCEPT !.health = classify_health(season)] >>

\* A start test that does not look at the previous sample
IsSeasonStart_NoCrossing(in_s, val, prev_val) ==
    ~in_s /\ GE(val, threshold * Scale)

\* Detect Start: not in_season and val >= threshold and prev_val < threshold
IsSeasonStart(in_s, val, prev_val) ==
    ~in_s /\ GE(val, threshold * Scale) /\ LT(prev_val, threshold * Scale)

\* A start index that is one sample early
StartIdxAtOpen_Previous(idx) == idx - 1

\* season_start_idx = i
StartIdxAtOpen(idx) == idx

\* A final close that ignores the flag
ClosesAtEnd_IgnoresFlag(in_s, flag) == in_s

\* if in_season and close_unclosed
ClosesAtEnd(in_s, flag) == in_s /\ flag

\* The while loop of the sharp-drop check: the final value of lookback
RECURSIVE SharpDropLookback(_, _, _, _)
SharpDropLookback(ds, idx, start_idx, lookback) ==
    IF lookback < idx - start_idx
    THEN LET total_days == SumSeq([j \in 1..lookback |->
                                     At(ds, idx - (j - 1)) - At(ds, idx - (j - 1) - 1)])
         IN IF total_days > sharp_drop_days THEN lookback
            ELSE SharpDropLookback(ds, idx, start_idx, lookback + 1)
    ELSE lookback

\* Sharp drop detection (harvest indicator)
IsSharpDrop(ds, sm, idx, start_idx) ==
    /\ idx >= 2
    /\ LET lookback == SharpDropLookback(ds, idx, start_idx, 1)
       IN /\ lookback > 0
          /\ LET window == Slice(sm, idx - lookback, idx)
                 recent_max == MaxOf({window[k] : k \in 1..Len(window)})
             IN recent_max - At(sm, idx) >= sharp_drop * Scale

\* An end test without the threshold crossing
IsSeasonEnd_SharpDropOnly(ds, sm, idx, start_idx) ==
    IsSharpDrop(ds, sm, idx, start_idx)

\* An end test without the harvest signal
IsSeasonEnd_ThresholdOnly(ds, sm, idx, start_idx) ==
    LT(At(sm, idx), threshold * Scale)

\* Detect End: crossing threshold downwards OR sharp drop
IsSeasonEnd(ds, sm, idx, start_idx) ==
    \/ LT(At(sm, idx), threshold * Scale)
    \/ IsSharpDrop(ds, sm, idx, start_idx)

\* Chronologically sorted day numbers with gaps from DayGaps
RECURSIVE DatesFromGaps(_)
DatesFromGaps(gaps) ==
    IF gaps = <<>> THEN <<0>>
    ELSE LET d == DatesFromGaps(SubSeq(gaps, 1, Len(gaps) - 1))
         IN Append(d, d[Len(d)] + gaps[Len(gaps)])

DateSeqs(n) == IF n = 0 THEN {<<>>}
               ELSE {DatesFromGaps(g) : g \in [1..(n - 1) -> DayGaps]}

\* Arguments of a direct classify_health call
HealthArgs == [start_date : {0}, peak_date : {0},
               peak_ndvi : {p * Scale : p \in {30, 40, 41, 50, 60, 61, 65, 70, 71, 75}},
               end_date : {0},
               duration_days : {50, 90, 91, 100, 120, 121, 130, 150, 151, 160},
               health : {""}]

DetInit ==
    /\ SelIdle
    /\ ExtIdle /\ RainIdle /\ BndIdle /\ LateIdle
    /\ smoothed_ndvi = <<>>
    /\ i = 0
    /\ in_season = FALSE
    /\ season_start_idx = -1
    /\ seasons = <<>>
    /\ candidates = <<>>
    /\ health_result = ""
    /\ \/ /\ det_pc = "start"
          /\ health_arg = <<>>
          /\ close_unclosed \in BOOLEAN
          /\ \E n \in 0..MaxSamples :
               /\ ndvi_values \in {v \in [1..n -> NdviValues \cup {NaN}] :
                                     Cardinality({k \in 1..n : v[k] = NaN}) \in MissingCounts}
               /\ \/ dates \in DateSeqs(n)
                  \/ dates = [k \in 1..(n + 1) |-> 7 * (k - 1)]
       \/ /\ det_pc = "classify"
          /\ health_arg \in HealthArgs
          /\ close_unclosed = TRUE
          /\ ndvi_values = <<>>
          /\ dates = <<>>

\* The guard, the smoothing and the initialisation of the scan
DetBegin ==
    /\ det_pc = "start"
    /\ IF dates = <<>> \/ ndvi_values = <<>> \/ Len(dates) # Len(ndvi_values)
       THEN /\ det_pc' = "done"
            /\ UNCHANGED smoothed_ndvi
       ELSE /\ smoothed_ndvi' = smooth_timeseries(ndvi_values, SmoothWindow)
            /\ det_pc' = "loop"
    /\ seasons' = <<>>
    /\ in_season' = FALSE
    /\ season_start_idx' = -1
    /\ i' = 1
    /\ UNCHANGED <<dates, ndvi_values, close_unclosed, candidates, health_arg,
                   health_result, selVars, tsVars>>

\* One iteration of "for i in range(1, len(smoothed_ndvi))"
DetStep ==
    /\ det_pc = "loop"
    /\ i < Len(smoothed_ndvi)
    /\ LET val == At(smoothed_ndvi, i)
           prev_val == At(smoothed_ndvi, i - 1)
       IN IF IsSeasonStart(in_season, val, prev_val)
          THEN /\ in_season' = TRUE
               /\ season_start_idx' = StartIdxAtOpen(i)
               /\ UNCHANGED <<seasons, candidates>>
          ELSE IF in_season /\ IsSeasonEnd(dates, smoothed_ndvi, i, season_start_idx)
          THEN LET season == create_season(dates, smoothed_ndvi, season_start_idx, i)
               IN /\ in_season' = FALSE
                  /\ seasons' = seasons \o season
                  /\ candidates' = Append(candidates,
                        [start_idx |-> season_start_idx, end_idx |-> i,
                         kept |-> season # <<>>])
                  /\ UNCHANGED season_start_idx
          ELSE UNCHANGED <<in_season, season_start_idx, seasons, candidates>>
    /\ i' = i + 1
    /\ UNCHANGED <<dates, ndvi_values, close_unclosed, det_pc, smoothed_ndvi,
                   health_arg, health_result, selVars, tsVars>>

\* Handle unclosed season at end of data, and return
DetFinish ==
    /\ det_pc = "loop"
    /\ i >= Len(smoothed_ndvi)
    /\ IF ClosesAtEnd(in_season, close_unclosed)
       THEN LET end_idx == Len(smoothed_ndvi) - 1
                season == create_season(dates, smoothed_ndvi, season_start_idx, end_idx)
            IN /\ seasons' = seasons \o season
               /\ candidates' = Append(candidates,
                     [start_idx |-> season_start_idx, end_idx |-> end_idx,
                      kept |-> season # <<>>])
       ELSE UNCHANGED <<seasons, candidates>>
    /\ det_pc' = "done"
    /\ UNCHANGED <<dates, ndvi_values, close_unclosed, smoothed_ndvi, i, in_season,
                   season_start_idx, health_arg, health_result, selVars, tsVars>>

\* A direct call of classify_health
ClassifyHealthCall ==
    /\ det_pc = "classify"
    /\ health_result' = classify_health(health_arg)
    /\ det_pc' = "classified"
    /\ UNCHANGED <<dates, ndvi_values, close_unclosed, smoothed_ndvi, i, in_season,
                   season_start_idx, seasons, candidates, health_arg, selVars, tsVars>>

DetNext == DetBegin \/ DetStep \/ DetFinish \/ ClassifyHealthCall

SpecSeasons == DetInit /\ [][DetNext]_vars

-----------------------------------------------------------------------------
(* The per-scene field extractors                                          *)
(* A raster is a sequence of pixels; band values are integers, NaN for a   *)
(* no-data pixel.  Index values are in thousandths; a field mean is kept   *)
(* as the exact pair sum / count, count being metadata['count'].           *)

MaxScenes == 3

\* scl_cloud_classes: shadow, medium cloud, high cloud, cirrus
scl_cloud_classes == {3, 8, 9, 10}

\* The cloud gate of compute_ndvi_for_scene and _compute_indices_for_scene
NdviMaxCloud == 50

\* The mask built by create_field_mask: two pixels inside the field, one outside
FieldMask == <<TRUE, TRUE, FALSE>>

\* stats['mean'] is None
NoneMean == [num |-> 0, den |-> 0]

GT(a, b) == a # NaN /\ b # NaN /\ a > b

\* A selection that ignores the mask
MaskSelect_All(data, mask) == data

\* data_array[mask]
MaskSelect(data, mask) ==
    LET idx == SelectSeq([k \in 1..Len(data) |-> k], LAMBDA k : mask[k])
    IN [j \in 1..Len(idx) |-> data[idx[j]]]

\* Ascending order of a sequence of numbers
RECURSIVE Ascending(_)
Ascending(s) ==
    IF s = <<>> THEN <<>>
    ELSE LET m == MinOf({s[k] : k \in 1..Len(s)})
             at == MinOf({k \in 1..Len(s) : s[k] = m})
         IN <<m>> \o Ascending(SubSeq(s, 1, at - 1) \o SubSeq(s, at + 1, Len(s)))

\* percentiles: list = [10, 25, 50, 75, 90]
DefaultPercentiles == {10, 25, 50, 75, 90}

\* np.percentile(valid_pixels, p): linear interpolation between the order
\* statistics around position (n - 1) * p / 100
Percentile(sorted, p) ==
    LET pos == (Len(sorted) - 1) * p
        lo == pos \div 100
        frac == pos % 100
        hi == IF lo + 2 <= Len(sorted) THEN lo + 2 ELSE Len(sorted)
    IN [num |-> sorted[lo + 1] * (100 - frac) + sorted[hi] * frac, den |-> 100]

\* compute_field_statistics: inside the mask and not NaN.  A statistic is an
\* exact fraction [num, den], NoneMean for None; std holds the variance
\* (the square of np.std).
compute_field_statistics(data, mask) ==
    LET field_pixels == MaskSelect(data, mask)
        valid_pixels == SelectSeq(field_pixels, LAMBDA v : v # NaN)
        n == Len(valid_pixels)
        sorted == Ascending(valid_pixels)
        total == SumSeq(valid_pixels)
        squares == SumSeq([k \in 1..n |-> valid_pixels[k] * valid_pixels[k]])
    IN IF n = 0
       THEN [mean |-> NoneMean, std |-> NoneMean, min |-> NoneMean,
             max |-> NoneMean, median |-> NoneMean, count |-> 0,
             percentiles |-> <<>>]
       ELSE [mean |-> [num |-> total, den |-> n],
             std |-> [num |-> n * squares - total * total, den |-> n * n],
             min |-> [num |-> sorted[1], den |-> 1],
             max |-> [num |-> sorted[n], den |-> 1],
             median |-> [num |-> sorted[(n + 1) \div 2] + sorted[(n + 2) \div 2],
                         den |-> 2],
             count |-> n,
             percentiles |-> [q \in DefaultPercentiles |-> Percentile(sorted, q)]]

\* np.mean(np.isin(scl[field_mask], classes)), in hundredths; NaN on an empty field
CloudFraction(scl, mask) ==
    LET field_scl == MaskSelect(scl, mask)
        cloud_pixels == SelectSeq(field_scl, LAMBDA c : c \in scl_cloud_classes)
    IN IF Len(field_scl) = 0 THEN NaN
       ELSE (100 * Len(cloud_pixels)) \div Len(field_scl)

\* np.where((nir + red) != 0, (nir - red) / (nir + red), np.nan) for one pixel
NdviPixel(nir, red) ==
    IF nir = NaN \/ red = NaN THEN NaN
    ELSE IF nir + red # 0 THEN ((nir - red) * 1000) \div (nir + red)
    ELSE NaN

NdviRaster(nir, red) == [k \in 1..Len(nir) |-> NdviPixel(nir[k], red[k])]

\* A gate that also rejects a scene exactly at the limit
TooCloudy_Inclusive(cloud_fraction, limit) == cloud_fraction # NaN /\ cloud_fraction >= limit

\* cloud_fraction > max_cloud_fraction
TooCloudy(cloud_fraction, limit) == GT(cloud_fraction, limit)

\* A loop that lets the exception of one scene end the run
AfterSceneError_Abort == "raised"

\* except KeyError / except Exception: continue
AfterSceneError == "loop"

\* An emission that puts the newest entry first
Emit_Front(res, entries) == entries \o res

\* results.append(...) / dates.append(...), values.append(...)
Emit(res, entries) == res \o entries

\* Band pairs <<nir, red>> of a scene: a vegetated field with one
\* zero-denominator pixel, a field of zero-denominator pixels, a no-data field
BandPairs ==
    { << <<60, 0, 0>>, <<20, 0, 0>> >>,
      << <<0, 0, 50>>, <<0, 0, 10>> >>,
      << <<NaN, NaN, 50>>, <<20, 20, 10>> >> }

\* SCL rasters: 0 %, 50 % and 100 % cloud over the field
SclRasters == { <<4, 4, 9>>, <<8, 4, 4>>, <<3, 10, 4>> }

ItemsOf(epsgs, pairs, raises) ==
    { [epsg |-> e, nir |-> p[1], red |-> p[2], band_raises |-> br,
       has_scl |-> s.has_scl, scl |-> s.scl, scl_raises |-> s.scl_raises] :
         e \in epsgs, p \in pairs, br \in raises,
         s \in { [has_scl |-> FALSE, scl |-> <<4, 4, 4>>, scl_raises |-> FALSE] }
               \cup { [has_scl |-> TRUE, scl |-> r, scl_raises |-> FALSE] : r \in SclRasters }
               \cup { [has_scl |-> TRUE, scl |-> <<9, 9, 4>>, scl_raises |-> TRUE] } }

\* Items of one grid, with every kind of band content and read failure
Items ==
    ItemsOf({32736}, BandPairs, {FALSE})
    \cup ItemsOf({32736}, { << <<60, 0, 0>>, <<20, 0, 0>> >> }, {TRUE})

\* Readable items of two UTM zones
GridItems ==
    { it \in ItemsOf({32736, 32737}, { << <<60, 0, 0>>, <<20, 0, 0>> >> }, {FALSE}) :
        ~it.scl_raises /\ it.scl \in { <<4, 4, 4>>, <<4, 4, 9>> } }

\* SceneResult(date, item), in chronological order
ScenesOf(items) == [k \in 1..Len(items) |-> [date |-> 5 * (k - 1), item |-> items[k]]]

\* max_cloud_fraction: the default and that of fetch_rainfall_timeseries
MaxCloudFractions == {50, 100}

ExtFunctions == {"extract_field_values", "fetch_ndvi_timeseries",
                 "fetch_multi_index_timeseries"}

\* The body of the for loop of extract_field_values for scene k (asset_key B08)
ExtractFieldValuesScene(k, scene, mask, limit) ==
    LET item == scene.item
    IN IF item.band_raises
       THEN [outcome |-> "read_error", emit |-> <<>>]
       ELSE LET data == item.nir
                cloud_fraction == IF item.has_scl /\ ~item.scl_raises
                                  THEN CloudFraction(item.scl, mask)
                                  ELSE 0
                stats == compute_field_statistics(data, mask)
            IN IF TooCloudy(cloud_fraction, limit)
               THEN [outcome |-> "cloud_gate", emit |-> <<>>]
               ELSE IF stats.mean # NoneMean
               THEN [outcome |-> "emitted",
                     emit |-> <<[scene |-> k, date |-> scene.date, value |-> stats.mean,
                                 cloud_fraction |-> cloud_fraction]>>]
               ELSE [outcome |-> "no_valid", emit |-> <<>>]

\* compute_ndvi_for_scene and the "if result" of fetch_ndvi_timeseries
ComputeNdviForScene(k, scene, mask) ==
    LET item == scene.item
    IN IF item.band_raises \/ (item.has_scl /\ item.scl_raises)
       THEN [outcome |-> "read_error", emit |-> <<>>]
       ELSE LET cloud_fraction == IF item.has_scl THEN CloudFraction(item.scl, mask) ELSE 0
                ndvi == NdviRaster(item.nir, item.red)
                stats == compute_field_statistics(ndvi, mask)
            IN IF item.has_scl /\ TooCloudy(cloud_fraction, NdviMaxCloud)
               THEN [outcome |-> "cloud_gate", emit |-> <<>>]
               ELSE IF stats.mean # NoneMean
               THEN [outcome |-> "emitted",
                     emit |-> <<[scene |-> k, date |-> scene.date, value |-> stats.mean,
                                 cloud_fraction |-> cloud_fraction]>>]
               ELSE [outcome |-> "no_valid", emit |-> <<>>]

\* _compute_indices_for_scene with indices = ['ndvi'] and the "if values" of
\* fetch_multi_index_timeseries: a dict holding a None mean is not empty
ComputeIndicesForScene(k, scene, mask) ==
    LET item == scene.item
    IN IF item.band_raises
       THEN [outcome |-> "read_error", emit |-> <<>>]
       ELSE LET scl_read == item.has_scl /\ ~item.scl_raises
                cloud_fraction == IF scl_read THEN CloudFraction(item.scl, mask) ELSE 0
                ndvi == NdviRaster(item.nir, item.red)
                stats == compute_field_statistics(ndvi, mask)
            IN IF scl_read /\ TooCloudy(cloud_fraction, NdviMaxCloud)
               THEN [outcome |-> "cloud_gate", emit |-> <<>>]
               ELSE [outcome |-> IF stats.mean # NoneMean THEN "emitted" ELSE "emitted_none",
                     emit |-> <<[scene |-> k, date |-> scene.date, value |-> stats.mean,
                                 cloud_fraction |-> cloud_fraction]>>]

ExtStart ==
    /\ ext_pc = "setup"
    /\ ext_i = 1
    /\ mask_epsg = NoEpsg
    /\ results = <<>>
    /\ ext_log = <<>>
    /\ ext_fn \in ExtFunctions
    /\ max_cloud_fraction \in
         IF ext_fn = "extract_field_values" THEN MaxCloudFractions ELSE {NdviMaxCloud}

ExtInit ==
    /\ SelIdle /\ DetIdle /\ RainIdle /\ BndIdle /\ LateIdle
    /\ ExtStart
    /\ scenes \in {ScenesOf(items) : items \in SeqsUpTo(Items, MaxScenes)}

GridInit ==
    /\ SelIdle /\ DetIdle /\ RainIdle /\ BndIdle /\ LateIdle
    /\ ExtStart
    /\ scenes \in {ScenesOf(items) : items \in SeqsUpTo(GridItems, MaxScenes)}

\* "if not scenes: return", else the mask is built on the grid of scenes[0]
ExtSetup ==
    /\ ext_pc = "setup"
    /\ IF scenes = <<>>
       THEN /\ ext_pc' = "done"
            /\ UNCHANGED mask_epsg
       ELSE /\ mask_epsg' = scenes[1].item.epsg
            /\ ext_pc' = "loop"
    /\ UNCHANGED <<ext_fn, scenes, max_cloud_fraction, ext_i, results, ext_log,
                   selVars, detVars, rainVars, bndVars, lateVars>>

\* One iteration of "for i, scene in enumerate(scenes)" with outcome r
ExtIterate(r) ==
    /\ ext_log' = Append(ext_log, [scene |-> ext_i, outcome |-> r.outcome,
                                   mask_epsg |-> mask_epsg])
    /\ IF r.outcome = "read_error"
       THEN /\ ext_pc' = AfterSceneError
            /\ ext_i' = IF AfterSceneError = "loop" THEN ext_i + 1 ELSE ext_i
            /\ UNCHANGED results
       ELSE /\ results' = Emit(results, r.emit)
            /\ ext_i' = ext_i + 1
            /\ UNCHANGED ext_pc
    /\ UNCHANGED <<ext_fn, scenes, max_cloud_fraction, mask_epsg,
                   selVars, detVars, rainVars, bndVars, lateVars>>

ExtractFieldValuesStep ==
    /\ ext_pc = "loop"
    /\ ext_fn = "extract_field_values"
    /\ ext_i <= Len(scenes)
    /\ ExtIterate(ExtractFieldValuesScene(ext_i, scenes[ext_i], FieldMask,
                                          max_cloud_fraction))

FetchNdviStep ==
    /\ ext_pc = "loop"
    /\ ext_fn = "fetch_ndvi_timeseries"
    /\ ext_i <= Len(scenes)
    /\ ExtIterate(ComputeNdviForScene(ext_i, scenes[ext_i], FieldMask))

FetchMultiIndexStep ==
    /\ ext_pc = "loop"
    /\ ext_fn = "fetch_multi_index_timeseries"
    /\ ext_i <= Len(scenes)
    /\ ExtIterate(ComputeIndicesForScene(ext_i, scenes[ext_i], FieldMask))

\* The end of the loop: the entries are returned
ExtReturn ==
    /\ ext_pc = "loop"
    /\ ext_i > Len(scenes)
    /\ ext_pc' = "done"
    /\ UNCHANGED <<ext_fn, scenes, max_cloud_fraction, ext_i, mask_epsg, results,
                   ext_log, selVars, detVars, rainVars, bndVars, lateVars>>

ExtNext == ExtSetup \/ ExtractFieldValuesStep \/ FetchNdviStep
              \/ FetchMultiIndexStep \/ ExtReturn

SpecExtract == ExtInit /\ [][ExtNext]_vars

SpecGrid == GridInit /\ [][ExtNext]_vars

-----------------------------------------------------------------------------
(* The rainfall accumulation of get_satellite_data                          *)
(* A daily rain band is one integer (millimetres over the field); a day    *)
(* whose read raises is ReadFails.                                         *)

MaxRainDays == 9

ReadFails == -1

RainBands == {1, 2}

\* deque(maxlen=7)
window7_maxlen == 7

\* A 7-day sum that never drops the evicted day
SubtractOldest_Never(s7, win) == s7

\* if len(window7) == window7.maxlen: sum7 = sum7 - window7[0]
SubtractOldest(s7, win) ==
    IF Len(win) = window7_maxlen
    THEN (IF s7 # NoSum THEN s7 - win[1] ELSE NoSum)
    ELSE s7

\* window7.append(rain_band) on a deque with maxlen
DequeAppend(win, band) ==
    IF Len(win) = window7_maxlen
    THEN Append(Tail(win), band)
    ELSE Append(win, band)

\* x = band if x is None else x + band
Accumulate(s, band) == IF s = NoSum THEN band ELSE s + band

RainInit ==
    /\ SelIdle /\ DetIdle /\ ExtIdle /\ BndIdle /\ LateIdle
    /\ items_rain \in SeqsUpTo(RainBands \cup {ReadFails}, MaxRainDays) \ {<<>>}
    /\ rain_pc = "loop"
    /\ rain_idx = 1
    /\ sum30 = NoSum
    /\ sum7 = NoSum
    /\ window7 = <<>>
    /\ count = 0
    /\ rain_read = <<>>

\* One iteration of "for item in items_rain[::-1]"
RainDay ==
    /\ rain_pc = "loop"
    /\ rain_idx <= Len(items_rain)
    /\ LET rain_band == items_rain[rain_idx]
       IN IF rain_band = ReadFails
          THEN UNCHANGED <<sum30, sum7, window7, count, rain_read>>
          ELSE /\ count' = count + 1
               /\ sum30' = Accumulate(sum30, rain_band)
               /\ window7' = DequeAppend(window7, rain_band)
               /\ sum7' = Accumulate(SubtractOldest(sum7, window7), rain_band)
               /\ rain_read' = Append(rain_read, rain_band)
    /\ rain_idx' = rain_idx + 1
    /\ UNCHANGED <<items_rain, rain_pc, selVars, detVars, extVars, bndVars, lateVars>>

\* After the loop data["rain"] is built from the sums
RainFinish ==
    /\ rain_pc = "loop"
    /\ rain_idx > Len(items_rain)
    /\ rain_pc' = "done"
    /\ UNCHANGED <<items_rain, rain_idx, sum30, sum7, window7, count, rain_read,
                   selVars, detVars, extVars, bndVars, lateVars>>

RainNext == RainDay \/ RainFinish

SpecRain == RainInit /\ [][RainNext]_vars

-----------------------------------------------------------------------------
(* The boundary constructors                                                *)
(* Coordinates are integers; a vertex is <<lat, lon>>, a ring coordinate   *)
(* <<lon, lat>>.                                                           *)

MaxVertices == 4

Latitudes == {-26, 0, 10}
Longitudes == {-180, -3, 28}
Radii == {-100, 0, 1, 400}

VertexSet == { <<-26, 28>>, <<-27, 28>>, <<-27, 29>> }

\* int((center_lon + 180) / 6) + 1
UtmZone(lon) == ((lon + 180) \div 6) + 1

Hemisphere(lat) == IF lat >= 0 THEN "north" ELSE "south"

\* point_utm.buffer(radius_meters, resolution=16), as offsets in metres from
\* the centre; the ring is represented by its four cardinal vertices.  A
\* buffer of distance zero or less is the empty polygon.
BufferRing(radius) ==
    IF radius <= 0 THEN <<>>
    ELSE << <<radius, 0>>, <<0, -radius>>, <<-radius, 0>>, <<0, radius>>, <<radius, 0>> >>

\* create_circular_boundary: no argument is checked
CircularBoundary(lat, lon, radius) ==
    [type |-> "Polygon",
     coordinates |-> BufferRing(radius),
     properties |-> [center_lat |-> lat, center_lon |-> lon, radius_m |-> radius,
                     utm_zone |-> UtmZone(lon), hemisphere |-> Hemisphere(lat),
                     \* area_ha in units of pi / 10000 hectares
                     area_ha |-> radius * radius]]

\* len(vertices) < 3
TooFewVertices(vs) == Len(vs) < 3

\* A ring that is never closed
NeedsClosing_Never(coords) == FALSE

\* coords[0] != coords[-1]
NeedsClosing(coords) == coords[1] # coords[Len(coords)]

\* coords = [(lon, lat) for lat, lon in vertices] and the closing of the ring
RingCoords(vs) ==
    LET coords == [k \in 1..Len(vs) |-> <<vs[k][2], vs[k][1]>>]
    IN IF NeedsClosing(coords) THEN Append(coords, coords[1]) ELSE coords

\* Polygon(coords) needs four coordinates for a ring under shapely 2 and
\* takes three under shapely 1
PolygonOutcomes(coords) ==
    IF Len(coords) >= 4 THEN {"returned"} ELSE {"returned", "raised"}

BndInit ==
    /\ SelIdle /\ DetIdle /\ ExtIdle /\ RainIdle /\ LateIdle
    /\ bnd_pc = "call"
    /\ boundary = NoBoundary
    /\ geometry_built = FALSE
    /\ \/ /\ bnd_fn = "circle"
          /\ center_lat \in Latitudes
          /\ center_lon \in Longitudes
          /\ radius_meters \in Radii
          /\ vertices = <<>>
       \/ /\ bnd_fn = "polygon"
          /\ center_lat = 0
          /\ center_lon = 0
          /\ radius_meters = 0
          /\ vertices \in SeqsUpTo(VertexSet, MaxVertices)

\* create_circular_boundary(center_lat, center_lon, radius_meters)
CreateCircularBoundary ==
    /\ bnd_pc = "call"
    /\ bnd_fn = "circle"
    /\ geometry_built' = TRUE
    /\ boundary' = CircularBoundary(center_lat, center_lon, radius_meters)
    /\ bnd_pc' = "returned"
    /\ UNCHANGED <<bnd_fn, center_lat, center_lon, radius_meters, vertices,
                   selVars, detVars, extVars, rainVars, lateVars>>

\* create_polygon_boundary(vertices)
CreatePolygonBoundary ==
    /\ bnd_pc = "call"
    /\ bnd_fn = "polygon"
    /\ IF TooFewVertices(vertices)
       THEN /\ bnd_pc' = "raised"
            /\ UNCHANGED <<boundary, geometry_built>>
       ELSE LET coords == RingCoords(vertices)
            IN /\ geometry_built' = TRUE
               /\ \E outcome \in PolygonOutcomes(coords) :
                    /\ bnd_pc' = outcome
                    /\ boundary' =
                         IF outcome = "returned"
                         THEN [type |-> "Polygon",
                               coordinates |-> coords,
                               properties |-> [num_vertices |-> Len(vertices)]]
                         ELSE NoBoundary
    /\ UNCHANGED <<bnd_fn, center_lat, center_lon, radius_meters, vertices,
                   selVars, detVars, extVars, rainVars, lateVars>>

BndNext == CreateCircularBoundary \/ CreatePolygonBoundary

SpecBoundary == BndInit /\ [][BndNext]_vars

-----------------------------------------------------------------------------
(* Direct calls of smooth_timeseries                                        *)

MaxWindow == 7

\* The window arguments: every size from 1 up, odd and even
Windows == 1..MaxWindow

SmInit ==
    /\ SelIdle /\ DetIdle /\ ExtIdle /\ RainIdle /\ BndIdle
    /\ MskIdle /\ FetIdle /\ CmpIdle
    /\ sm_values \in SeqsUpTo(NdviValues \cup {NaN}, MaxSamples)
    /\ sm_window \in Windows
    /\ sm_pc = "call"
    /\ sm_result = <<>>

\* smooth_timeseries(values, window)
SmoothCall ==
    /\ sm_pc = "call"
    /\ sm_result' = smooth_timeseries(sm_values, sm_window)
    /\ sm_pc' = "returned"
    /\ UNCHANGED <<sm_values, sm_window, selVars, detVars, extVars, rainVars,
                   bndVars, mskVars, fetVars, cmpVars>>

SmNext == SmoothCall

SpecSmooth == SmInit /\ [][SmNext]_vars

-----------------------------------------------------------------------------
(* apply_field_mask and direct calls of compute_field_statistics            *)
(* An array is [shape, dtype, px]: px lists the pixels row by row; a pixel  *)
(* of an H x W array is a number, a pixel of an H x W x C array the         *)
(* sequence of its C channel values.  A boolean array holds 0 and 1.        *)

MaxPixels == 4

\* (H, W) with at most MaxPixels pixels
Shapes == {sh \in (1..MaxPixels) \X (1..MaxPixels) : sh[1] * sh[2] <= MaxPixels}

FloatValues == {NaN, 1, 5}
BoolValues == {0, 1}
RgbPixels == { <<1, 5>>, <<NaN, 1>> }
FillValues == {NaN, 0}

\* Index rasters (float), the cloud mask of process_indices (bool) and
\* multi-band images (float, two channels)
Arrays ==
    UNION {   [shape : {sh}, dtype : {"float64"}, px : [1..(sh[1] * sh[2]) -> FloatValues]]
         \cup [shape : {sh}, dtype : {"bool"}, px : [1..(sh[1] * sh[2]) -> BoolValues]]
         \cup [shape : {<<sh[1], sh[2], 2>>}, dtype : {"float64"},
               px : [1..(sh[1] * sh[2]) -> RgbPixels]]
          : sh \in Shapes }

Masks == UNION { [shape : {sh}, px : [1..(sh[1] * sh[2]) -> BOOLEAN]] : sh \in Shapes }

\* data_array.shape[:2] != mask.shape
ShapeMismatch(arr, m) == SubSeq(arr.shape, 1, 2) # m.shape

\* The value an array of the given dtype stores when fill_value is assigned
\* to one of its elements: a boolean array stores bool(fill_value), and
\* bool(nan) is True
StoredAs(dtype, value) ==
    IF dtype = "bool" THEN (IF value = 0 THEN 0 ELSE 1) ELSE value

\* result[~mask] = fill_value, on every channel of a 3-D array
FillOutside(arr, m, value) ==
    [k \in 1..Len(arr.px) |->
        IF m.px[k] THEN arr.px[k]
        ELSE IF Len(arr.shape) = 3
             THEN [c \in 1..arr.shape[3] |-> StoredAs(arr.dtype, value)]
             ELSE StoredAs(arr.dtype, value)]

\* The values of an array in memory order, and the mask cell of each
FlatPixels(arr) ==
    IF Len(arr.shape) = 3
    THEN [k \in 1..(Len(arr.px) * arr.shape[3]) |->
            arr.px[((k - 1) \div arr.shape[3]) + 1][((k - 1) % arr.shape[3]) + 1]]
    ELSE arr.px

FlatMask(arr, m) ==
    IF Len(arr.shape) = 3
    THEN [k \in 1..(Len(m.px) * arr.shape[3]) |-> m.px[((k - 1) \div arr.shape[3]) + 1]]
    ELSE m.px

MskInit ==
    /\ SelIdle /\ DetIdle /\ ExtIdle /\ RainIdle /\ BndIdle
    /\ SmIdle /\ FetIdle /\ CmpIdle
    /\ data_array \in Arrays
    /\ mask_array \in Masks
    /\ \/ msk_fn = "apply_field_mask" /\ fill_value \in FillValues
       \/ msk_fn = "compute_field_statistics" /\ fill_value = NaN
    /\ msk_pc = "call"
    /\ msk_result = NoResult

\* apply_field_mask(data_array, mask, fill_value)
ApplyFieldMask ==
    /\ msk_pc = "call"
    /\ msk_fn = "apply_field_mask"
    /\ IF ShapeMismatch(data_array, mask_array)
       THEN /\ msk_pc' = "raised"
            /\ UNCHANGED msk_result
       ELSE /\ msk_result' = [data_array EXCEPT
                                !.px = FillOutside(data_array, mask_array, fill_value)]
            /\ msk_pc' = "returned"
    /\ data_array' = data_array
    /\ UNCHANGED <<msk_fn, mask_array, fill_value, selVars, detVars, extVars,
                   rainVars, bndVars, smVars, fetVars, cmpVars>>

\* compute_field_statistics(data_array, mask): data_array[mask] raises
\* IndexError when the mask does not fit the leading dimensions
ComputeFieldStatistics ==
    /\ msk_pc = "call"
    /\ msk_fn = "compute_field_statistics"
    /\ IF ShapeMismatch(data_array, mask_array)
       THEN /\ msk_pc' = "raised"
            /\ UNCHANGED msk_result
       ELSE /\ msk_result' = compute_field_statistics(FlatPixels(data_array),
                                                      FlatMask(data_array, mask_array))
            /\ msk_pc' = "returned"
    /\ UNCHANGED <<msk_fn, data_array, mask_array, fill_value, selVars, detVars,
                   extVars, rainVars, bndVars, smVars, fetVars, cmpVars>>

MskNext == ApplyFieldMask \/ ComputeFieldStatistics

SpecMask == MskInit /\ [][MskNext]_vars

-----------------------------------------------------------------------------
(* fetch_timeseries                                                         *)
(* An item is [id, datetime]: datetime is a day number, or one of the two   *)
(* values below for an item whose date cannot be read.  The page size of    *)
(* 100 is scaled down to PageSize; the page limit is the program's own.     *)

MaxCatalog == 5

\* page_size = 100, scaled
PageSize == 2

\* if page > 100: break
PageLimit == 100

\* item['properties']['datetime'] raises KeyError / parsing raises ValueError
MissingDatetime == 0
MalformedDatetime == -1

\* The matching items of a catalog of n scenes, in the order the catalog
\* serves them: ascending by date as requested, or descending
CatalogOf(n, ascending, bad, kind) ==
    [k \in 1..n |->
        [id |-> k,
         datetime |-> IF k = bad THEN kind
                      ELSE IF ascending THEN 10 * k ELSE 10 * (n - k + 1)]]

Catalogs ==
    {CatalogOf(n, asc, bad, kind) :
        n \in 0..MaxCatalog, asc \in BOOLEAN, bad \in 0..MaxCatalog,
        kind \in {MissingDatetime, MalformedDatetime}}

\* How the catalog answers the identical search repeated: a STAC API is
\* stateless and answers every time with the first page; the mock of the
\* unit test hands out the next page on every call
Servers == {"stateless", "cursor"}

\* The number of the request that fails (timeout, HTTP error), 0 for none
FailAts == 0..3

\* _search_stac_paginated: the features of the response, [] on any error
search_stac_paginated(cat, srv, request, fails) ==
    IF fails THEN <<>>
    ELSE LET first == IF srv = "cursor" THEN (request - 1) * PageSize + 1 ELSE 1
             last == IF first + PageSize - 1 <= Len(cat)
                     THEN first + PageSize - 1 ELSE Len(cat)
         IN SubSeq(cat, first, last)

\* A page limit that lets one more page through
HitPageLimit_Late(p) == p > PageLimit + 1

\* if page > 100
HitPageLimit(p) == p > PageLimit

\* The conversion loop: items whose date cannot be read are skipped
ConvertItems(items) ==
    LET readable == SelectSeq(items, LAMBDA it : it.datetime > 0)
    IN [k \in 1..Len(readable) |->
          [date |-> readable[k].datetime, item |-> readable[k].id]]

\* The results with a date in ds, by ascending date, equal dates in the
\* order of rs
RECURSIVE SortedFrom(_, _)
SortedFrom(rs, ds) ==
    IF ds = {} THEN <<>>
    ELSE LET d == MinOf(ds)
         IN SelectSeq(rs, LAMBDA r : r.date = d) \o SortedFrom(rs, ds \ {d})

\* results.sort(key=lambda x: x.date): a stable sort
SortByDate(rs) == SortedFrom(rs, {rs[k].date : k \in 1..Len(rs)})

FetInit ==
    /\ SelIdle /\ DetIdle /\ ExtIdle /\ RainIdle /\ BndIdle
    /\ SmIdle /\ MskIdle /\ CmpIdle
    /\ catalog \in Catalogs
    /\ server \in Servers
    /\ fail_at \in FailAts
    /\ fet_pc = "loop"
    /\ page = 1
    /\ requests = 0
    /\ all_items = <<>>
    /\ fet_results = <<>>

\* One iteration of "while True"
FetchPage ==
    /\ fet_pc = "loop"
    /\ requests' = requests + 1
    /\ LET items == search_stac_paginated(catalog, server, requests + 1,
                                          fail_at = requests + 1)
       IN IF items = <<>>
          THEN /\ fet_pc' = "convert"
               /\ UNCHANGED <<all_items, page>>
          ELSE /\ all_items' = all_items \o items
               /\ IF Len(items) < PageSize
                  THEN /\ fet_pc' = "convert"
                       /\ UNCHANGED page
                  ELSE /\ page' = page + 1
                       /\ fet_pc' = IF HitPageLimit(page + 1) THEN "convert" ELSE "loop"
    /\ UNCHANGED <<catalog, server, fail_at, fet_results, selVars, detVars,
                   extVars, rainVars, bndVars, smVars, mskVars, cmpVars>>

\* The conversion to SceneResult, the sort and the return
FetchReturn ==
    /\ fet_pc = "convert"
    /\ fet_results' = SortByDate(ConvertItems(all_items))
    /\ fet_pc' = "done"
    /\ UNCHANGED <<catalog, server, fail_at, page, requests, all_items, selVars,
                   detVars, extVars, rainVars, bndVars, smVars, mskVars, cmpVars>>

FetNext == FetchPage \/ FetchReturn

SpecFetch == FetInit /\ [][FetNext]_vars

\* The loop and the return are straight-line code that always proceeds
SpecFetchLive == SpecFetch /\ WF_vars(FetNext)

-----------------------------------------------------------------------------
(* The Sentinel-2 and Landsat sections of get_satellite_data                *)
(* The Sentinel-2 candidates are those of the selector, which this function *)
(* calls; a Landsat search result is NoScene, a scene whose bands read, or  *)
(* a scene whose band read raises.                                          *)

\* limit=max(1, int(s2_lookback))
MaxLookback == 2

LandsatScenes == {NoScene, "ok", "read_raises"}

\* need_sr_fallback = cloud_pct > 50.0
FallbackCloudPct == 50

\* The fallback decision of lines 171-180
NeedSrFallback(s2) ==
    IF s2 = NoS2 THEN TRUE
    ELSE ComputeCloudPctFromScl(items_s2[s2]) > FallbackCloudPct

CmpInit ==
    /\ DetIdle /\ ExtIdle /\ RainIdle /\ BndIdle
    /\ SmIdle /\ MskIdle /\ FetIdle
    /\ items_s2 \in SeqsUpTo(Candidates, MaxLookback)
    /\ threshold_pct \in Thresholds
    /\ sel_pc = IF items_s2 = <<>> THEN "done" ELSE "scan"
    /\ sel_idx = 1
    /\ selected_item = NoItem
    /\ selected_cloud = NoCloud
    /\ best_item = NoItem
    /\ best_cloud = NoCloud
    /\ scl_reads = <<>>
    /\ cmp_pc = "s2"
    /\ items_ls_st \in LandsatScenes
    /\ items_ls_sr \in LandsatScenes
    /\ data_s2 = NoS2
    /\ data_landsat = NoLandsat
    /\ ndvi_source = "None"
    /\ searches = <<"s2_l2a">>

\* 1. Get Sentinel-2 Data: after the selector has returned, the bands of the
\* chosen scene are read outside any try
ReadChosenS2 ==
    /\ cmp_pc = "s2"
    /\ sel_pc = "done"
    /\ IF items_s2 = <<>> \/ selected_item = NoItem
       THEN /\ cmp_pc' = "landsat"
            /\ UNCHANGED <<data_s2, ndvi_source>>
       ELSE IF items_s2[selected_item].read_raises
       THEN /\ cmp_pc' = "raised"
            /\ UNCHANGED <<data_s2, ndvi_source>>
       ELSE /\ data_s2' = selected_item
            /\ ndvi_source' = "S2"
            /\ cmp_pc' = "landsat"
    /\ UNCHANGED <<items_ls_st, items_ls_sr, data_landsat, searches, selVars,
                   detVars, extVars, rainVars, bndVars, smVars, mskVars, fetVars>>

\* 2. Get Landsat Data (LST + optional SR fallback), inside one try
GetLandsat ==
    /\ cmp_pc = "landsat"
    /\ cmp_pc' = "done"
    /\ IF items_ls_st = "read_raises"
       THEN /\ searches' = Append(searches, "ls9_st")
            /\ data_landsat' = NoLandsat
            /\ UNCHANGED ndvi_source
       ELSE LET search_sr == items_s2 # <<>> /\ NeedSrFallback(data_s2)
                sr_computed == search_sr /\ items_ls_sr = "ok"
            IN /\ searches' = IF search_sr
                              THEN searches \o <<"ls9_st", "ls9_sr">>
                              ELSE Append(searches, "ls9_st")
               /\ data_landsat' = [st |-> items_ls_st = "ok", sr_ndvi |-> sr_computed]
               /\ ndvi_source' = IF sr_computed THEN "Landsat" ELSE ndvi_source
    /\ UNCHANGED <<items_ls_st, items_ls_sr, data_s2, selVars, detVars, extVars,
                   rainVars, bndVars, smVars, mskVars, fetVars>>

CmpNext == SelScan \/ SelReturn \/ ReadChosenS2 \/ GetLandsat

SpecComposite == CmpInit /\ [][CmpNext]_vars

-----------------------------------------------------------------------------
(* Properties of the scene selector *)

\* What the selector sets out to do, stated over the whole candidate list
Acceptable(k) == ItemCloudPct(items_s2[k]) <= threshold_pct
FirstAcceptable == CHOOSE k \in 1..Len(items_s2) :
                       Acceptable(k) /\ \A j \in 1..(k - 1) : ~Acceptable(j)
ItemsRead == {scl_reads[k].item : k \in 1..Len(scl_reads)}
Failing(k) == items_s2[k].read_raises \/ items_s2[k].classify_raises

\* C1: when some candidate has cloud percentage <= threshold_pct, the
\* selected item is the first-listed (most recent) such candidate, and no
\* candidate listed after it is read.
C1_FirstAcceptableSelected ==
    (sel_pc = "done" /\ \E k \in 1..Len(items_s2) : Acceptable(k)) =>
        /\ selected_item = FirstAcceptable
        /\ selected_cloud = ItemCloudPct(items_s2[FirstAcceptable])
        /\ ItemsRead = 1..FirstAcceptable

\* C1 witness: the selected candidate met the threshold although an older,
\* unread candidate has strictly less cloud.
C1_Witness ==
    /\ sel_pc = "done"
    /\ selected_item # NoItem
    /\ Acceptable(selected_item)
    /\ \E j \in (selected_item + 1)..Len(items_s2) :
           /\ ItemCloudPct(items_s2[j]) < selected_cloud
           /\ j \notin ItemsRead

\* C2: when the list is non-empty and no candidate meets the threshold, the
\* whole list is scanned and the selected item has the lowest cloud
\* percentage of the whole list.
C2_FallbackLowestCloud ==
    (sel_pc = "done" /\ items_s2 # <<>>
       /\ \A k \in 1..Len(items_s2) : ~Acceptable(k)) =>
        /\ ItemsRead = 1..Len(items_s2)
        /\ selected_item \in 1..Len(items_s2)
        /\ selected_cloud = ItemCloudPct(items_s2[selected_item])
        /\ \A k \in 1..Len(items_s2) : selected_cloud <= ItemCloudPct(items_s2[k])

\* C2 witness: the fallback picked the oldest candidate of a longer list.
C2_Witness ==
    /\ sel_pc = "done"
    /\ Len(items_s2) >= 3
    /\ \A k \in 1..Len(items_s2) : ~Acceptable(k)
    /\ selected_item = Len(items_s2)

\* C3: a candidate whose band read or classification raises is scored 100,
\* the scan goes on to the next candidate, the selector never raises, and
\* such a candidate is selected only if threshold_pct >= 100 or no other
\* candidate scores lower.
C3_FailureIsWorstCase ==
    /\ sel_pc # "raised"
    /\ \A r \in 1..Len(scl_reads) :
           Failing(scl_reads[r].item) => scl_reads[r].cloud_pct = 100
    /\ sel_pc = "done" =>
         \A k \in 1..Len(items_s2) : Failing(k) =>
            /\ (k \in ItemsRead /\ threshold_pct < 100 /\ k < Len(items_s2))
                   => (k + 1) \in ItemsRead
            /\ selected_item = k =>
                   \/ threshold_pct >= 100
                   \/ \A j \in 1..Len(items_s2) : ItemCloudPct(items_s2[j]) >= 100

\* C3 witness: a failing candidate was read and the scan went on to select
\* a later one.
C3_Witness ==
    /\ sel_pc = "done"
    /\ \E k \in ItemsRead : Failing(k) /\ k < selected_item
    /\ \E k \in ItemsRead : items_s2[k].classify_raises

-----------------------------------------------------------------------------
(* Properties of the phenology detector *)

Thr == threshold * Scale
AtOrAbove(v) == v # NaN /\ v >= Thr
Below(v) == v # NaN /\ v < Thr
LastIdx == Len(smoothed_ndvi) - 1
ScanStep == det_pc = "loop" /\ det_pc' = "loop" /\ i' = i + 1
FinalStep == det_pc = "loop" /\ det_pc' = "done"
DaysBetween(a, b) == At(dates, b) - At(dates, a)
IdxOfDate(d) == CHOOSE k \in 0..(Len(dates) - 1) : At(dates, k) = d
LastOf(s) == s[Len(s)]

\* C4: the detector starts out of season; a season opens at sample i
\* (i >= 1) exactly when the detector is out of season, the smoothed value
\* at i is >= threshold and the one at i-1 is < threshold, and the start
\* index is then i; a series that is >= threshold throughout opens none.
C4_OpensOnUpwardCrossing ==
    /\ [](det_pc = "loop" /\ i = 1 => ~in_season)
    /\ [][ScanStep =>
            LET val == At(smoothed_ndvi, i)
                prev_val == At(smoothed_ndvi, i - 1)
                opens == ~in_season /\ in_season'
            IN /\ i >= 1
               /\ opens <=> (~in_season /\ AtOrAbove(val) /\ Below(prev_val))
               /\ opens => season_start_idx' = i]_vars
    /\ []((det_pc = "done"
             /\ \A k \in 1..Len(smoothed_ndvi) : AtOrAbove(smoothed_ndvi[k]))
           => (seasons = <<>> /\ candidates = <<>> /\ ~in_season))

\* C4 witness: a second season has opened after a first one was returned.
C4_Witness ==
    /\ det_pc = "loop"
    /\ in_season
    /\ Len(seasons) >= 1
    /\ season_start_idx = i - 1

\* The samples the sharp-drop test compares with sample idx: those of the
\* open season before idx, back to the first one that lies more than
\* sharp_drop_days before idx.
TrailingWindow(idx, start_idx) ==
    {k \in start_idx..(idx - 1) :
        k = idx - 1 \/ DaysBetween(k + 1, idx) <= sharp_drop_days}
SharpDropFires(idx, start_idx) ==
    \E k \in TrailingWindow(idx, start_idx) :
        At(smoothed_ndvi, k) - At(smoothed_ndvi, idx) >= sharp_drop * Scale

\* C5: while in season, the season ends at sample i if and only if the
\* smoothed value at i is < threshold or the sharp-drop test fires at i; the
\* end test is first applied at the sample after the opening one.
C5_EndsOnThresholdOrSharpDrop ==
    [][ScanStep =>
         /\ in_season =>
              /\ i > season_start_idx
              /\ (~in_season') <=> (\/ Below(At(smoothed_ndvi, i))
                                    \/ SharpDropFires(i, season_start_idx))
         /\ (~in_season /\ in_season') => candidates' = candidates]_vars

\* C5 witness: a season has just ended by sharp drop, at a value that is not
\* below the threshold and with a drop that an older sample of the trailing
\* window decides.
C5_Witness ==
    /\ det_pc = "loop"
    /\ ~in_season
    /\ candidates # <<>>
    /\ LastOf(candidates).end_idx = i - 1
    /\ AtOrAbove(At(smoothed_ndvi, i - 1))
    /\ At(smoothed_ndvi, i - 2) - At(smoothed_ndvi, i - 1) < sharp_drop * Scale

\* C6: every returned Season has duration_days >= min_duration; a candidate
\* shorter than that is dropped, the detector is out of season afterwards,
\* and a later upward crossing still opens a season.
C6_ShortCandidatesDropped ==
    /\ [](\A k \in 1..Len(seasons) : seasons[k].duration_days >= min_duration)
    /\ [][(ScanStep /\ in_season /\ ~in_season') =>
            LET duration == DaysBetween(season_start_idx, i)
            IN IF duration < min_duration
               THEN seasons' = seasons
               ELSE /\ Len(seasons') = Len(seasons) + 1
                    /\ SubSeq(seasons', 1, Len(seasons)) = seasons
                    /\ LastOf(seasons').duration_days = duration
                    /\ LastOf(seasons').start_date = At(dates, season_start_idx)
                    /\ LastOf(seasons').end_date = At(dates, i)]_vars
    /\ [][(ScanStep /\ ~in_season /\ candidates # <<>>
             /\ ~LastOf(candidates).kept
             /\ AtOrAbove(At(smoothed_ndvi, i)) /\ Below(At(smoothed_ndvi, i - 1)))
           => in_season']_vars

\* C6 witness: a candidate was dropped and a later season was returned.
C6_Witness ==
    /\ det_pc = "done"
    /\ \E a, b \in 1..Len(candidates) :
          a < b /\ ~candidates[a].kept /\ candidates[b].kept
    /\ seasons # <<>>

\* C7: when the scan ends in season, close_unclosed true closes the open
\* season at the last sample and returns it only if it passes the
\* min_duration filter; close_unclosed false adds no Season.
C7_UnclosedSeasonAtEnd ==
    [][(FinalStep /\ in_season) =>
         LET duration == DaysBetween(season_start_idx, LastIdx)
         IN IF close_unclosed /\ duration >= min_duration
            THEN /\ Len(seasons') = Len(seasons) + 1
                 /\ SubSeq(seasons', 1, Len(seasons)) = seasons
                 /\ LastOf(seasons').start_date = At(dates, season_start_idx)
                 /\ LastOf(seasons').end_date = At(dates, LastIdx)
                 /\ LastOf(seasons').duration_days = duration
            ELSE seasons' = seasons]_vars

\* C7 witness: the scan ended in season and the open season was closed at
\* the last sample and returned.
C7_Witness ==
    /\ det_pc = "done"
    /\ in_season
    /\ close_unclosed
    /\ seasons # <<>>
    /\ LastOf(seasons).end_date = At(dates, LastIdx)
    /\ LastOf(seasons).start_date = At(dates, season_start_idx)

\* C8: for every input with fewer samples than the smoothing window,
\* detect_seasons returns an empty season list.
C8_ShortInputNoSeasons ==
    (det_pc = "done" /\ Len(ndvi_values) < SmoothWindow) => seasons = <<>>

\* The classification as the claim states it
HealthAsSpecified(h, peak, duration) ==
    LET e == peak > 70 * Scale /\ duration > 150
        g == peak > 60 * Scale /\ duration > 120
        m == peak > 40 * Scale /\ duration > 90
    IN /\ h \in {"excellent", "good", "moderate", "poor"}
       /\ (h = "excellent") <=> e
       /\ (h = "good") <=> (~e /\ g)
       /\ (h = "moderate") <=> (~e /\ ~g /\ m)
       /\ (h = "poor") <=> (~e /\ ~g /\ ~m)

\* C9: classify_health is first-match-wins over strict inequalities, and
\* every returned Season carries the classification of its own peak_ndvi
\* and duration_days, never "pending".
C9_HealthClassification ==
    /\ det_pc = "classified" =>
          HealthAsSpecified(health_result, health_arg.peak_ndvi,
                            health_arg.duration_days)
    /\ \A k \in 1..Len(seasons) :
          HealthAsSpecified(seasons[k].health, seasons[k].peak_ndvi,
                            seasons[k].duration_days)

\* C9 witness: detect_seasons returned a season rated excellent.
C9_Witness ==
    /\ det_pc = "done"
    /\ \E k \in 1..Len(seasons) : seasons[k].health = "excellent"

\* C10: returned seasons are in chronological order and do not overlap: the
\* start index of each is strictly greater than the end index of the one
\* before it, so its start_date is >= that end_date.
C10_SeasonsOrderedDisjoint ==
    \A k \in 1..(Len(seasons) - 1) :
        /\ IdxOfDate(seasons[k + 1].start_date) > IdxOfDate(seasons[k].end_date)
        /\ seasons[k + 1].start_date >= seasons[k].end_date
        /\ seasons[k].start_date <= seasons[k].end_date

\* C10 witness: two seasons were returned.
C10_Witness ==
    /\ det_pc = "done"
    /\ Len(seasons) >= 2

-----------------------------------------------------------------------------
(* Properties of the per-scene field extractors *)

\* Scene k has been processed by the loop
Processed(k) == k \in 1..Len(ext_log)

\* An entry was emitted for scene k
HasPoint(k) == \E j \in 1..Len(results) : results[j].scene = k

FieldPixels == {p \in 1..Len(FieldMask) : FieldMask[p]}

\* Number of field pixels of scene k whose SCL class is a cloud class
FieldCloudCount(k) ==
    Cardinality({p \in FieldPixels : scenes[k].item.scl[p] \in {3, 8, 9, 10}})

\* Both the data band and the SCL band of scene k are read
SclRead(k) ==
    LET item == scenes[k].item
    IN ~item.band_raises /\ item.has_scl /\ ~item.scl_raises

\* The SCL band of scene k is there but reading it raises
SclFails(k) == scenes[k].item.has_scl /\ scenes[k].item.scl_raises

\* An exception reaches the per-scene handler while scene k is processed
SceneRaises(k) ==
    \/ scenes[k].item.band_raises
    \/ ext_fn = "fetch_ndvi_timeseries" /\ SclFails(k)

RejectedByGate(k) == ext_log[k].outcome = "cloud_gate" /\ ~HasPoint(k)

\* C11: in extract_field_values a scene whose SCL band is read is rejected by
\* the cloud gate exactly when the fraction of field pixels in the classes
\* {3, 8, 9, 10} is strictly greater than max_cloud_fraction (a scene exactly
\* at the limit is kept), and with max_cloud_fraction = 1.0 the gate rejects
\* no scene at all.
C11_CloudGateStrict ==
    ext_fn = "extract_field_values" =>
      \A k \in 1..Len(ext_log) :
        /\ SclRead(k) =>
             (RejectedByGate(k) <=>
                100 * FieldCloudCount(k) > max_cloud_fraction * Cardinality(FieldPixels))
        /\ max_cloud_fraction = 100 => ext_log[k].outcome # "cloud_gate"

C11_Witness ==
    /\ ext_fn = "extract_field_values"
    /\ ext_pc = "done"
    /\ max_cloud_fraction = 50
    /\ \E k \in 1..Len(ext_log) :
         SclRead(k) /\ FieldCloudCount(k) = 1 /\ HasPoint(k)
    /\ \E k \in 1..Len(ext_log) :
         SclRead(k) /\ FieldCloudCount(k) = 2 /\ RejectedByGate(k)

\* The field pixels of scene k that are valid in the index raster
ValidIndexPixels(k) ==
    {p \in FieldPixels :
       NdviPixel(scenes[k].item.nir[p], scenes[k].item.red[p]) # NaN}

ValidBandPixels(k) == {p \in FieldPixels : scenes[k].item.nir[p] # NaN}

ZeroValid(k) ==
    IF ext_fn = "extract_field_values"
    THEN ValidBandPixels(k) = {}
    ELSE ValidIndexPixels(k) = {}

\* C12: every emitted entry has a non-null value, in extract_field_values,
\* fetch_ndvi_timeseries and fetch_multi_index_timeseries alike: a scene with
\* zero valid pixels inside the mask contributes neither a date nor a value.
C12_EmittedValuesNonNull ==
    /\ \A j \in 1..Len(results) : results[j].value # NoneMean
    /\ \A k \in 1..Len(ext_log) :
         (~scenes[k].item.band_raises /\ ZeroValid(k)) => ~HasPoint(k)

\* Scene k, processed on its own, passes every read, the gate and the reduction
Healthy(k) ==
    LET item == scenes[k].item
    IN /\ ~item.band_raises
       /\ ~item.has_scl
       /\ ~ZeroValid(k)

C14_SclFailureEmitsNothing ==
    \A j \in 1..Len(results) : ~SclFails(results[j].scene)

\* The mean over the field of scene k with a zero-denominator pixel valued 0
ZeroRulePixel(nir, red) ==
    IF nir = NaN \/ red = NaN THEN NaN
    ELSE IF nir + red # 0 THEN ((nir - red) * 1000) \div (nir + red)
    ELSE 0

ZeroRuleMean(k) ==
    LET item == scenes[k].item
        raster == [p \in 1..Len(item.nir) |-> ZeroRulePixel(item.nir[p], item.red[p])]
    IN compute_field_statistics(raster, FieldMask).mean

ZeroDenominatorPixels(k) ==
    {p \in FieldPixels : scenes[k].item.nir[p] # NaN /\ scenes[k].item.red[p] # NaN
                           /\ scenes[k].item.nir[p] + scenes[k].item.red[p] = 0}

\* C15: in compute_ndvi_for_scene and _compute_indices_for_scene a pixel whose
\* denominator NIR + RED is exactly zero has the index value 0, not NaN, and
\* counts among the valid pixels: the emitted mean and count of a scene are
\* those of the raster with 0 at its zero-denominator pixels.
C15_ZeroDenominatorIsZero ==
    ext_fn \in {"fetch_ndvi_timeseries", "fetch_multi_index_timeseries"} =>
      /\ \A j \in 1..Len(results) : results[j].value = ZeroRuleMean(results[j].scene)
      /\ \A k \in 1..Len(ext_log) :
           (ext_log[k].outcome \in {"no_valid", "emitted_none"}) =>
              ZeroDenominatorPixels(k) = {}

\* C16: extract_field_values and fetch_ndvi_timeseries emit at most one entry
\* per input scene and in input order: the entries belong to strictly
\* increasing processed scenes and carry the dates of those scenes.
C16_OutputInInputOrder ==
    ext_fn \in {"extract_field_values", "fetch_ndvi_timeseries"} =>
      /\ \A j \in 1..Len(results) :
           /\ Processed(results[j].scene)
           /\ results[j].date = scenes[results[j].scene].date
      /\ \A j1, j2 \in 1..Len(results) :
           j1 < j2 => results[j1].scene < results[j2].scene

C16_Witness ==
    /\ ext_fn \in {"extract_field_values", "fetch_ndvi_timeseries"}
    /\ ext_pc = "done"
    /\ Len(scenes) = 3
    /\ Len(results) = 2
    /\ ext_log[2].outcome = "cloud_gate"
    /\ results[1].date < results[2].date

\* C17: a field mask is applied only to rasters of the grid it was built for:
\* in fetch_ndvi_timeseries, fetch_multi_index_timeseries and
\* fetch_lst_timeseries the CRS of every processed scene equals the CRS the
\* mask applied to it was rasterized in.
C17_MaskMatchesSceneGrid ==
    \A k \in 1..Len(ext_log) : ext_log[k].mask_epsg = scenes[k].item.epsg

-----------------------------------------------------------------------------
(* Properties of the rainfall accumulation *)

\* The bands of the days processed so far whose read succeeded, oldest first
SuccessfulDays ==
    SelectSeq(SubSeq(items_rain, 1, rain_idx - 1), LAMBDA b : b # ReadFails)

\* The last n elements of s, all of s when it is shorter
LastN(s, n) == IF Len(s) <= n THEN s ELSE SubSeq(s, Len(s) - n + 1, Len(s))

\* C18: after each processed day, for any pattern of read failures, the
\* window holds at most 7 bands, namely the last min(7, n) of the n days read
\* successfully, the running 7-day sum is the sum of the bands in the window,
\* and the 30-day sum is the sum of all n successful days; a day whose read
\* fails is in none of them.
C18_RainSumsMatchWindow ==
    LET n == Len(SuccessfulDays)
    IN /\ rain_read = SuccessfulDays
       /\ count = n
       /\ Len(window7) <= 7
       /\ window7 = LastN(SuccessfulDays, 7)
       /\ sum7 = (IF n = 0 THEN NoSum ELSE SumSeq(window7))
       /\ sum30 = (IF n = 0 THEN NoSum ELSE SumSeq(SuccessfulDays))

C18_Witness ==
    /\ rain_pc = "done"
    /\ Len(rain_read) = 8
    /\ Len(items_rain) = 9
    /\ items_rain[4] = ReadFails
    /\ rain_read[1] = 2
    /\ rain_read[8] = 1
    /\ Len(window7) = 7
    /\ sum7 = sum30 - 2

-----------------------------------------------------------------------------
(* Properties of the boundary constructors *)

\* C19: create_circular_boundary fails with a validation error for every
\* radius_meters <= 0: it returns no boundary, and never an empty or default
\* geometry.
C19_NonPositiveRadiusRejected ==
    (bnd_fn = "circle" /\ bnd_pc # "call" /\ radius_meters <= 0) =>
       (bnd_pc = "raised" /\ boundary = NoBoundary)

\* C20: create_polygon_boundary raises ValueError for every vertex list with
\* fewer than 3 vertices before any geometry is built, and for 3 or more
\* vertices whose first and last differ it returns the ring of the vertices
\* as (lon, lat) closed by its first coordinate.
C20_PolygonCheckedAndClosed ==
    (bnd_fn = "polygon" /\ bnd_pc # "call") =>
       /\ Len(vertices) < 3 =>
            (bnd_pc = "raised" /\ ~geometry_built /\ boundary = NoBoundary)
       /\ (Len(vertices) >= 3 /\ vertices[1] # vertices[Len(vertices)]) =>
            /\ bnd_pc = "returned"
            /\ LET ring == boundary.coordinates
               IN /\ Len(ring) = Len(vertices) + 1
                  /\ ring[1] = ring[Len(ring)]
                  /\ \A k \in 1..Len(vertices) :
                       ring[k] = <<vertices[k][2], vertices[k][1]>>

C20_Witness ==
    /\ bnd_fn = "polygon"
    /\ bnd_pc = "returned"
    /\ Len(vertices) = 3
    /\ vertices[1] # vertices[3]
    /\ Len(boundary.coordinates) = 4
    /\ boundary.coordinates[4] = <<vertices[1][2], vertices[1][1]>>

-----------------------------------------------------------------------------
(* Properties of the selector's return value *)

\* The lowest cloud percentage among the candidates the scan has read
LowestScanned ==
    CHOOSE c \in {scl_reads[r].cloud_pct : r \in 1..Len(scl_reads)} :
        \A r \in 1..Len(scl_reads) : c <= scl_reads[r].cloud_pct

\* C28: on every return the selected item is best_item_overall and the
\* selected cloud percentage is best_cloud_pct (all four are None exactly
\* when the candidate list is empty), so the selected candidate has the
\* lowest cloud percentage among the candidates actually scanned.
C28_SelectedIsBestScanned ==
    sel_pc = "done" =>
        /\ selected_item = best_item
        /\ selected_cloud = best_cloud
        /\ (items_s2 = <<>>) <=>
               (selected_item = NoItem /\ selected_cloud = NoCloud
                  /\ best_item = NoItem /\ best_cloud = NoCloud)
        /\ (items_s2 = <<>>) <=> (selected_item = NoItem)
        /\ items_s2 # <<>> =>
               /\ selected_item \in ItemsRead
               /\ selected_cloud = ItemCloudPct(items_s2[selected_item])
               /\ selected_cloud = LowestScanned

\* C28 witness: the scan returned early on its third candidate, which met
\* the threshold after two cloudier ones, with an unread candidate behind.
C28_Witness ==
    /\ sel_pc = "done"
    /\ selected_item = 3
    /\ Len(scl_reads) = 3
    /\ Len(items_s2) = 4
    /\ scl_reads[2].cloud_pct < scl_reads[1].cloud_pct
    /\ selected_cloud < scl_reads[2].cloud_pct
    /\ best_item = 3

-----------------------------------------------------------------------------
(* Properties of the sharp-drop window and of the returned seasons *)

\* The samples whose smoothed value the sharp-drop check at sample idx
\* compares with the value at idx: smoothed_ndvi[idx-lookback:idx]
ComparedSamples(idx, start_idx) ==
    (idx - SharpDropLookback(dates, idx, start_idx, 1))..(idx - 1)

\* The sharp-drop check is reached at this step of the scan
SharpDropChecked ==
    /\ ScanStep
    /\ in_season
    /\ i >= 2
    /\ ~LT(At(smoothed_ndvi, i), Thr)

\* C25: the sharp-drop check looks back at most sharp_drop_days: every
\* sample compared with value[i] lies within sharp_drop_days calendar days
\* before sample i, so a season that ends at a value not below the threshold
\* has, within those days, a sample at least sharp_drop above value[i].
C25_SharpDropWithinDays ==
    [][SharpDropChecked =>
         /\ \A k \in ComparedSamples(i, season_start_idx) :
                DaysBetween(k, i) <= sharp_drop_days
         /\ (~in_season') =>
                \E k \in season_start_idx..(i - 1) :
                    /\ DaysBetween(k, i) <= sharp_drop_days
                    /\ At(smoothed_ndvi, k) - At(smoothed_ndvi, i)
                          >= sharp_drop * Scale]_vars

\* The candidates that were returned, in the order of seasons
KeptCandidates == SelectSeq(candidates, LAMBDA c : c.kept)

\* C26: for every returned Season with start index s and end index e,
\* peak_ndvi is the maximum smoothed value over the samples s..e inclusive,
\* peak_date is the date of the first sample attaining it (so start_date <=
\* peak_date <= end_date), and duration_days is end_date - start_date in
\* whole days.
C26_PeakAndDuration ==
    /\ Len(KeptCandidates) = Len(seasons)
    /\ \A n \in 1..Len(seasons) :
         LET s == KeptCandidates[n].start_idx
             e == KeptCandidates[n].end_idx
             season == seasons[n]
             attains == {k \in s..e : At(smoothed_ndvi, k) = season.peak_ndvi}
         IN /\ \A k \in s..e : At(smoothed_ndvi, k) <= season.peak_ndvi
            /\ attains # {}
            /\ season.peak_date = At(dates, MinOf(attains))
            /\ season.start_date = At(dates, s)
            /\ season.end_date = At(dates, e)
            /\ season.start_date <= season.peak_date
            /\ season.peak_date <= season.end_date
            /\ season.duration_days = At(dates, e) - At(dates, s)

\* C26 witness: a returned season whose maximum is attained at two samples,
\* the first of them after the start, and whose last sample is lower.
C26_Witness ==
    /\ det_pc = "done"
    /\ \E n \in 1..Len(seasons) :
         LET s == KeptCandidates[n].start_idx
             e == KeptCandidates[n].end_idx
         IN \E a, b \in (s + 1)..e :
              /\ a < b
              /\ At(smoothed_ndvi, a) = seasons[n].peak_ndvi
              /\ At(smoothed_ndvi, b) = seasons[n].peak_ndvi
              /\ seasons[n].peak_date = At(dates, a)
              /\ At(smoothed_ndvi, s) < seasons[n].peak_ndvi
              /\ At(smoothed_ndvi, e) < seasons[n].peak_ndvi

\* The n-th returned season was closed by the end of the data
ClosedAtEndOfData(n) ==
    /\ det_pc = "done"
    /\ in_season
    /\ close_unclosed
    /\ n = Len(seasons)
    /\ LastOf(candidates).kept
    /\ LastOf(candidates).start_idx = season_start_idx

\* C29: for every returned Season with start index s and end index e, the
\* smoothed value at s-1 is < threshold and the value at every sample
\* s..e-1 is >= threshold; only the end sample e may be below threshold (a
\* threshold end), and it is >= threshold when the season ended by sharp
\* drop or was closed at the end of the data.
C29_SeasonSamplesAboveThreshold ==
    \A n \in 1..Len(seasons) :
        LET s == KeptCandidates[n].start_idx
            e == KeptCandidates[n].end_idx
        IN /\ s >= 1
           /\ Below(At(smoothed_ndvi, s - 1))
           /\ \A k \in s..(e - 1) : AtOrAbove(At(smoothed_ndvi, k))
           /\ IF ClosedAtEndOfData(n)
              THEN AtOrAbove(At(smoothed_ndvi, e))
              ELSE \/ Below(At(smoothed_ndvi, e))
                   \/ /\ AtOrAbove(At(smoothed_ndvi, e))
                      /\ SharpDropFires(e, s)

\* C29 witness: a season that ended below the threshold was returned, and
\* after it a season that was closed by the end of the data.
C29_Witness ==
    /\ det_pc = "done"
    /\ in_season
    /\ Len(seasons) >= 2
    /\ ClosedAtEndOfData(Len(seasons))
    /\ \E n \in 1..(Len(seasons) - 1) :
          Below(At(smoothed_ndvi, KeptCandidates[n].end_idx))

-----------------------------------------------------------------------------
(* Properties of smooth_timeseries *)

\* C23: smooth_timeseries returns a series of exactly the same length as
\* its input, for every input length and every window >= 1, odd or even,
\* including inputs shorter than the window (returned unsmoothed, with the
\* missing values interpolated) and inputs containing missing values.
C23_SmoothKeepsLength ==
    sm_pc = "returned" =>
        /\ Len(sm_result) = Len(sm_values)
        /\ (Len(sm_values) < sm_window
              /\ \E k \in 1..Len(sm_values) : sm_values[k] # NaN) =>
               \A k \in 1..Len(sm_values) :
                   sm_result[k] = InterpAt(sm_values, k) * sm_window

\* C23 witness: a series with a missing sample was smoothed with an even
\* window not longer than the series, and the smoothing changed a value.
C23_Witness ==
    /\ sm_pc = "returned"
    /\ sm_window % 2 = 0
    /\ sm_window >= 4
    /\ Len(sm_values) > sm_window
    /\ \E k \in 1..Len(sm_values) : sm_values[k] = NaN
    /\ \E k \in 1..Len(sm_values) :
          sm_values[k] # NaN /\ sm_result[k] # sm_values[k] * InterpDen * sm_window

-----------------------------------------------------------------------------
(* Properties of apply_field_mask and compute_field_statistics *)

\* The channel values of pixel k of an array
ChannelValues(arr, k) ==
    IF Len(arr.shape) = 3
    THEN {arr.px[k][c] : c \in 1..arr.shape[3]}
    ELSE {arr.px[k]}

\* C21: for an array whose first two dimensions equal the mask's shape,
\* apply_field_mask returns a new array in which every pixel where mask is
\* False equals fill_value in every channel and every pixel where mask is
\* True equals the input pixel, so the untouched pixels are as many as the
\* True mask cells; the input array is left unmodified.
C21_MaskedCopy ==
    [][(msk_pc = "call" /\ msk_fn = "apply_field_mask"
          /\ ~ShapeMismatch(data_array, mask_array)) =>
         /\ msk_pc' = "returned"
         /\ msk_result'.shape = data_array.shape
         /\ \A k \in 1..Len(data_array.px) :
              IF mask_array.px[k]
              THEN msk_result'.px[k] = data_array.px[k]
              ELSE ChannelValues(msk_result', k) = {fill_value}
         /\ data_array' = data_array]_vars

\* The positions of the flattened array that are inside the mask and hold a
\* number, and their values
ValidPositions ==
    {k \in 1..Len(FlatPixels(data_array)) :
        FlatMask(data_array, mask_array)[k] /\ FlatPixels(data_array)[k] # NaN}
ValueAt(k) == FlatPixels(data_array)[k]
SumOfValid == SumSeq([k \in 1..Len(FlatPixels(data_array)) |->
                        IF k \in ValidPositions THEN ValueAt(k) ELSE 0])
SumOfSquares == SumSeq([k \in 1..Len(FlatPixels(data_array)) |->
                          IF k \in ValidPositions THEN ValueAt(k) * ValueAt(k) ELSE 0])

\* The j-th smallest value of the valid positions
OrderStatistic(j) ==
    CHOOSE v \in {ValueAt(k) : k \in ValidPositions} :
        /\ Cardinality({k \in ValidPositions : ValueAt(k) < v}) < j
        /\ Cardinality({k \in ValidPositions : ValueAt(k) <= v}) >= j

\* C22: compute_field_statistics counts exactly the pixels where mask is
\* True and the value is not NaN; when that set is empty it raises nothing
\* and returns count = 0 with mean, std, min, max and median all None;
\* otherwise count is the size of that set and every statistic is computed
\* over that set only.
C22_StatisticsOverValidPixels ==
    (msk_fn = "compute_field_statistics"
       /\ ~ShapeMismatch(data_array, mask_array)) =>
        /\ msk_pc # "raised"
        /\ msk_pc = "returned" =>
             LET n == Cardinality(ValidPositions)
                 st == msk_result
             IN /\ st.count = n
                /\ IF n = 0
                   THEN /\ st.mean = NoneMean /\ st.std = NoneMean
                        /\ st.min = NoneMean /\ st.max = NoneMean
                        /\ st.median = NoneMean
                   ELSE /\ st.mean = [num |-> SumOfValid, den |-> n]
                        /\ st.std = [num |-> n * SumOfSquares - SumOfValid * SumOfValid,
                                     den |-> n * n]
                        /\ st.min = [num |-> OrderStatistic(1), den |-> 1]
                        /\ st.max = [num |-> OrderStatistic(n), den |-> 1]
                        /\ st.median =
                             [num |-> OrderStatistic((n + 1) \div 2)
                                        + OrderStatistic((n + 2) \div 2),
                              den |-> 2]

\* C22 witness: statistics over two valid pixels of a raster that also has
\* a NaN inside the mask and a larger value outside it.
C22_Witness ==
    /\ msk_fn = "compute_field_statistics"
    /\ msk_pc = "returned"
    /\ Len(data_array.shape) = 2
    /\ data_array.dtype = "float64"
    /\ msk_result.count = 2
    /\ \E k \in 1..Len(data_array.px) :
          mask_array.px[k] /\ data_array.px[k] = NaN
    /\ \E k \in 1..Len(data_array.px) :
          /\ ~mask_array.px[k]
          /\ data_array.px[k] # NaN
          /\ data_array.px[k] > msk_result.max.num

-----------------------------------------------------------------------------
(* Properties of fetch_timeseries *)

\* The scenes of the catalog whose date can be read
ReadableIds == {catalog[k].id : k \in {j \in 1..Len(catalog) : catalog[j].datetime > 0}}
ResultsOf(id) == {k \in 1..Len(fet_results) : fet_results[k].item = id}

\* C24: when the catalog holds more than one page of matching scenes,
\* successive requests retrieve successive distinct pages, the loop stops
\* at the first page with fewer than a full page of items, and the result
\* contains every matching scene exactly once.
C24_PaginationCollectsEveryScene ==
    (fet_pc = "done" /\ fail_at = 0 /\ Len(catalog) > PageSize) =>
        /\ all_items = catalog
        /\ requests = (Len(catalog) \div PageSize) + 1
        /\ Len(fet_results) = Cardinality(ReadableIds)
        /\ \A id \in ReadableIds : Cardinality(ResultsOf(id)) = 1

\* The returned list is the collected items that have a readable date
SameScenes ==
    /\ Len(fet_results) = Len(ConvertItems(all_items))
    /\ \A id \in ReadableIds :
          Cardinality(ResultsOf(id))
             = Cardinality({k \in 1..Len(all_items) : all_items[k].id = id})
    /\ \A k \in 1..Len(fet_results) :
          /\ fet_results[k].item \in ReadableIds
          /\ fet_results[k].date = catalog[fet_results[k].item].datetime

-----------------------------------------------------------------------------
(* Properties of the NDVI fallback of get_satellite_data *)

SearchedFor(collection) == \E k \in 1..Len(searches) : searches[k] = collection

\* C27: when no Sentinel-2 scene was chosen, or when the chosen scene's
\* cloud cover is above 50 %, a Landsat SR scene is searched for and, if one
\* is found and read, NDVI is computed from it and ndvi_source becomes
\* "Landsat".
C27_LandsatFallback ==
    (cmp_pc = "done"
       /\ \/ data_s2 = NoS2
          \/ ComputeCloudPctFromScl(items_s2[data_s2]) > FallbackCloudPct) =>
        /\ SearchedFor("ls9_sr")
        /\ items_ls_sr = "ok" =>
              (data_landsat.sr_ndvi /\ ndvi_source = "Landsat")

====
